---- MODULE Spec2Model ----
(***************************************************************************)
(* Model of tube-to-tube: the download-video route handler (validation,    *)
(* resolution, stream wiring, cancellation, error classification), the     *)
(* collect-videos route handler and the Home page.                         *)
(*                                                                         *)
(* The handlers run on Node.js; the runtime objects they wire together     *)
(* (PassThrough, the WHATWG ReadableStream controller, the ytdl stream and *)
(* the fluent-ffmpeg command) are modelled by their documented behaviour   *)
(* at the place where the handler uses them.                               *)
(***************************************************************************)
EXTENDS Integers, Sequences, FiniteSets, TLC

\* ------------------------------------------------------------------ bounds
MaxChunks == 2      \* chunks the transcoder writes in one run
MaxMsgLen == 2      \* tokens in an error message
MaxVideos == 2      \* items in a search result

VARIABLES
    route,          \* which request the server is handling
    \* ---- download handler
    req,            \* the videoId query parameter of the request
    pc,             \* position of the download handler
    getInfoCalls,   \* number of ytdl.getInfo calls
    ytdlOpened,     \* ytdl(videoUrl, ...) was called
    thrown,         \* the error caught by the catch block
    resp,           \* the HTTP response returned by the download handler
    \* ---- the three pipeline objects
    vsDestroyed,    \* videoStreamNode.destroyed
    ytdlErrors,     \* 'error' events emitted by videoStreamNode
    ffState,        \* transcoder: "none", "running", "ended", "errored"
    ffKilled,       \* ffmpegCommand.kill('SIGKILL') was called
    written,        \* chunks the transcoder wrote to its output
    ptBuf,          \* chunks buffered in ffmpegOutputPassThrough
    ptEnded,        \* ffmpegOutputPassThrough emitted 'end'
    ptDestroyed,    \* ffmpegOutputPassThrough.destroyed
    \* ---- the response body (ReadableStream) and its controller
    ctrl,           \* [state, closeRequested, queue]
    enqueued,       \* chunks accepted by controller.enqueue, in call order
    closeCalls,     \* controller.close() calls
    errorCalls,     \* controller.error() calls
    lateCalls,      \* controller calls made after a terminal outcome
    outcomes,       \* terminal outcomes the body has reached
    uncaught,       \* a listener threw (enqueue/close on a finished body)
    cancelRequested,\* the consumer cancelled the body
    cancelRan,      \* the cancel() callback of the underlying source ran
    \* ---- collect-videos handler
    lpc,            \* position of the collect-videos handler
    apiKey,         \* process.env.YOUTUBE_API_KEY
    searchCalls,    \* number of youtube.search.list calls
    searchResult,   \* how the search call settled: "none", "ok", "failed"
    lresp,          \* the HTTP response of the collect-videos handler
    \* ---- Home page
    ppc,            \* position of Home
    net,            \* what fetch() gave the page
    videos,         \* let videos
    fetchError,     \* let fetchError
    views           \* the conditional sections of the returned markup

dlVars == <<req, pc, getInfoCalls, ytdlOpened, thrown, resp>>
pipeVars == <<vsDestroyed, ytdlErrors, ffState, ffKilled, written, ptBuf, ptEnded, ptDestroyed>>
bodyVars == <<ctrl, enqueued, closeCalls, errorCalls, lateCalls, outcomes, uncaught, cancelRequested, cancelRan>>
lsVars == <<lpc, apiKey, searchCalls, searchResult, lresp>>
pgVars == <<ppc, net, videos, fetchError, views>>
vars == <<route, dlVars, pipeVars, bodyVars, lsVars, pgVars>>

\* ------------------------------------------------------- request parameter
NullId == [kind |-> "null", len |-> 0, charsOk |-> TRUE, name |-> "-"]

VideoIds ==
    {NullId}
    \cup {[kind |-> "str", len |-> 0, charsOk |-> TRUE, name |-> "-"]}
    \cup {[kind |-> "str", len |-> l, charsOk |-> c, name |-> n] :
            l \in {10, 11, 12}, c \in BOOLEAN, n \in {"a", "b"}}

\* !videoId : null (parameter absent) or the empty string
Falsy(vid) == vid.kind = "null" \/ vid.len = 0

\* ytdl.validateID : exactly 11 characters of [a-zA-Z0-9-_]
validateID(vid) == vid.kind = "str" /\ vid.len = 11 /\ vid.charsOk

IdCheck_skipValidate(vid) == IF Falsy(vid) THEN "missing" ELSE "ok"

\* the two early returns of GET
IdCheck(vid) ==
    IF Falsy(vid) THEN "missing"
    ELSE IF ~validateID(vid) THEN "invalid"
    ELSE "ok"

\* ------------------------------------------------------------ error values
\* A message is a sequence of tokens; a token is one of the phrases the catch
\* block looks for, or some other text, in lower or upper case.  The last
\* phrase is the source's not-a-bot literal (written there with a
\* typographic apostrophe).
Phrases == {"unavailable", "private", "video not found",
            "extract function", "cipher", "signature",
            "no formats found matching quality", "no such format found",
            "sign in to confirm", "confirm you're not a bot"}

Tokens == [w : Phrases \cup {"other"}, up : BOOLEAN]

Messages == UNION {[1..n -> Tokens] : n \in 0..MaxMsgLen}

\* kind: "null" (no error object), "string" (message is a string),
\* "truthy" (message is a truthy non-string), "none" (message missing/falsy)
NoError == [kind |-> "null", message |-> <<>>]

Errors ==
    {[kind |-> "string", message |-> m] : m \in Messages}
    \cup {[kind |-> k, message |-> <<>>] : k \in {"null", "truthy", "none"}}

ToLowerCase_identity(m) == m

\* String.prototype.toLowerCase
ToLowerCase(m) == [i \in 1..Len(m) |-> [w |-> m[i].w, up |-> FALSE]]

\* String.prototype.includes with a lower-case literal
Includes(m, p) == \E i \in 1..Len(m) : m[i] = [w |-> p, up |-> FALSE]

NoText == [tpl |-> "none", arg |-> <<>>]

\* the catch block of the download handler: status and error text
Classify(e) ==
    IF e.kind = "string" THEN
        LET l == ToLowerCase(e.message) IN
        IF Includes(l, "unavailable") \/ Includes(l, "private") \/ Includes(l, "video not found")
        THEN [status |-> 404, text |-> [tpl |-> "unavailable", arg |-> <<>>]]
        ELSE IF Includes(l, "extract function") \/ Includes(l, "cipher") \/ Includes(l, "signature")
        THEN [status |-> 503, text |-> [tpl |-> "processing", arg |-> e.message]]
        ELSE IF Includes(l, "no formats found matching quality") \/ Includes(l, "no such format found")
        THEN [status |-> 422, text |-> [tpl |-> "format", arg |-> e.message]]
        ELSE IF Includes(l, "sign in to confirm") \/ Includes(l, "confirm you're not a bot")
        THEN [status |-> 403, text |-> [tpl |-> "verification", arg |-> e.message]]
        ELSE [status |-> 500, text |-> [tpl |-> "message", arg |-> e.message]]
    ELSE IF e.kind = "truthy"
    THEN [status |-> 500, text |-> [tpl |-> "unexpected", arg |-> <<>>]]
    ELSE [status |-> 500, text |-> [tpl |-> "unknown", arg |-> <<>>]]

NoResp == [status |-> 0, kind |-> "none", error |-> NoText, videoId |-> NullId]

JsonResp(st, text, vid) == [status |-> st, kind |-> "json", error |-> text, videoId |-> vid]

StreamResp == [status |-> 200, kind |-> "stream", error |-> NoText, videoId |-> NullId]

\* ------------------------------------------------ ReadableStream controller
NewCtrl == [state |-> "readable", closeRequested |-> FALSE, queue |-> <<>>]

\* the body has reached a terminal outcome: no enqueue/close is legal any more
Terminal(c) == c.state # "readable" \/ c.closeRequested

\* ----------------------------------------------------- JavaScript values
Undefined == "<undefined>"

Null == "<null>"

\* truthiness of a string-or-missing value
Truthy(v) == v \notin {"", Undefined, Null}

\* a || b || c
Or3(a, b, c) == IF Truthy(a) THEN a ELSE IF Truthy(b) THEN b ELSE c

\* a search result of n items
Items(n) == [i \in 1..n |-> i]

\* HTTP responses of the listing endpoint as the page sees them
NoBody(st) == [status |-> st, kind |-> "none", message |-> Undefined, error |-> Undefined, items |-> <<>>]

ObjectBody(st, m, e) == [status |-> st, kind |-> "object", message |-> m, error |-> e, items |-> <<>>]

ArrayBody(st, it) == [status |-> st, kind |-> "array", message |-> Undefined, error |-> Undefined, items |-> it]

NonJsonBody(st) == [status |-> st, kind |-> "nonjson", message |-> Undefined, error |-> Undefined, items |-> <<>>]

Init ==
    /\ route = "none"
    /\ req = NullId /\ pc = "idle" /\ getInfoCalls = 0 /\ ytdlOpened = FALSE
    /\ thrown = NoError /\ resp = NoResp
    /\ vsDestroyed = FALSE /\ ytdlErrors = 0 /\ ffState = "none" /\ ffKilled = FALSE
    /\ written = 0 /\ ptBuf = <<>> /\ ptEnded = FALSE /\ ptDestroyed = FALSE
    /\ ctrl = NewCtrl /\ enqueued = <<>> /\ closeCalls = 0 /\ errorCalls = 0
    /\ lateCalls = 0 /\ outcomes = {} /\ uncaught = FALSE
    /\ cancelRequested = FALSE /\ cancelRan = FALSE
    /\ lpc = "idle" /\ apiKey = Undefined /\ searchCalls = 0 /\ searchResult = "none"
    /\ lresp = NoBody(0)
    /\ ppc = "idle"
    /\ net = [outcome |-> "none", body |-> NoBody(0)]
    /\ videos = <<>> /\ fetchError = Null /\ views = {}

\* ------------------------------------------------------- download handler
\* GET up to the first await: the two early returns, then ytdl.getInfo
DownloadGET(vid) ==
    /\ route = "none"
    /\ route' = "download"
    /\ req' = vid
    /\ LET chk == IdCheck(vid) IN
       IF chk = "missing" THEN
            /\ resp' = JsonResp(400, [tpl |-> "required", arg |-> <<>>], NullId)
            /\ pc' = "done"
            /\ getInfoCalls' = getInfoCalls
       ELSE IF chk = "invalid" THEN
            /\ resp' = JsonResp(400, [tpl |-> "invalidId", arg |-> <<>>], vid)
            /\ pc' = "done"
            /\ getInfoCalls' = getInfoCalls
       ELSE
            /\ resp' = resp
            /\ pc' = "getInfo"
            /\ getInfoCalls' = getInfoCalls + 1
    /\ UNCHANGED <<ytdlOpened, thrown, pipeVars, bodyVars, lsVars, pgVars>>

\* the catch block
Catch(e) ==
    /\ thrown' = e
    /\ resp' = JsonResp(Classify(e).status, Classify(e).text, req)
    /\ pc' = "done"

\* ytdl.getInfo rejects
GetInfoRejects ==
    /\ pc = "getInfo"
    /\ \E e \in Errors : Catch(e)
    /\ UNCHANGED <<route, req, getInfoCalls, ytdlOpened, pipeVars, bodyVars, lsVars, pgVars>>

\* getInfo resolved and the setup throws synchronously, before or after the
\* source stream was opened
SetupThrows ==
    /\ pc = "getInfo"
    /\ \E opened \in BOOLEAN : ytdlOpened' = opened
    /\ \E e \in Errors : Catch(e)
    /\ UNCHANGED <<route, req, getInfoCalls, pipeVars, bodyVars, lsVars, pgVars>>

\* getInfo resolved; source stream opened, transcoder piped into the
\* pass-through, listeners registered by start(), streaming response returned
GetInfoResolves ==
    /\ pc = "getInfo"
    /\ ytdlOpened' = TRUE
    /\ ffState' = "running"
    /\ ctrl' = NewCtrl
    /\ resp' = StreamResp
    /\ pc' = "streaming"
    /\ UNCHANGED <<route, req, getInfoCalls, thrown, vsDestroyed, ytdlErrors, ffKilled,
                   written, ptBuf, ptEnded, ptDestroyed, enqueued, closeCalls, errorCalls,
                   lateCalls, outcomes, uncaught, cancelRequested, cancelRan, lsVars, pgVars>>

\* ------------------------------------------------------- streaming phase
ctrlVars == <<ctrl, enqueued, closeCalls, errorCalls, lateCalls, outcomes, uncaught>>

OnPassThroughData_drop(chunk) == UNCHANGED ctrlVars

\* ffmpegOutputPassThrough.on('data'): controller.enqueue(chunk); enqueue
\* throws a TypeError once the body is closed, closing or errored
OnPassThroughData(chunk) ==
    IF Terminal(ctrl) THEN
        /\ uncaught' = TRUE
        /\ lateCalls' = lateCalls + 1
        /\ UNCHANGED <<ctrl, enqueued, closeCalls, errorCalls, outcomes>>
    ELSE
        /\ ctrl' = [ctrl EXCEPT !.queue = Append(@, chunk)]
        /\ enqueued' = Append(enqueued, chunk)
        /\ UNCHANGED <<closeCalls, errorCalls, lateCalls, outcomes, uncaught>>

\* ffmpegOutputPassThrough.on('end'): controller.close(); close throws a
\* TypeError once the body is closed, closing or errored; otherwise the body
\* closes at once when its queue is empty and after the queue drains if not
OnPassThroughEnd ==
    /\ closeCalls' = closeCalls + 1
    /\ IF Terminal(ctrl) THEN
            /\ uncaught' = TRUE
            /\ lateCalls' = lateCalls + 1
            /\ UNCHANGED <<ctrl, outcomes>>
       ELSE
            /\ ctrl' = IF ctrl.queue = <<>>
                       THEN [ctrl EXCEPT !.state = "closed"]
                       ELSE [ctrl EXCEPT !.closeRequested = TRUE]
            /\ outcomes' = outcomes \cup {"closed"}
            /\ UNCHANGED <<uncaught, lateCalls>>
    /\ UNCHANGED <<enqueued, errorCalls>>

OnPassThroughError_logOnly == UNCHANGED ctrlVars

\* ffmpegOutputPassThrough.on('error'): controller.error(err); error is a
\* no-op unless the body is readable, and drops the queue when it acts
OnPassThroughError ==
    /\ errorCalls' = errorCalls + 1
    /\ lateCalls' = IF Terminal(ctrl) THEN lateCalls + 1 ELSE lateCalls
    /\ IF ctrl.state = "readable" THEN
            /\ ctrl' = [ctrl EXCEPT !.state = "errored", !.queue = <<>>]
            /\ outcomes' = outcomes \cup {"errored"}
       ELSE UNCHANGED <<ctrl, outcomes>>
    /\ UNCHANGED <<enqueued, closeCalls, uncaught>>

\* the guarded ffmpegOutputPassThrough.emit('error', ...) of both error
\* listeners: emit calls the 'error' listener synchronously and changes
\* nothing of the pass-through itself
EmitErrorUnlessDestroyed ==
    IF ~ptDestroyed THEN OnPassThroughError ELSE UNCHANGED ctrlVars

\* the transcoder writes one chunk to its output, piped into the pass-through
FfmpegWrite ==
    /\ pc = "streaming" /\ ffState = "running" /\ ~ffKilled
    /\ written < MaxChunks
    /\ written' = written + 1
    /\ ptBuf' = Append(ptBuf, written + 1)
    /\ UNCHANGED <<route, dlVars, vsDestroyed, ytdlErrors, ffState, ffKilled, ptEnded,
                   ptDestroyed, bodyVars, lsVars, pgVars>>

\* the transcoder finishes; its 'end' listener only logs
FfmpegEnd ==
    /\ pc = "streaming" /\ ffState = "running" /\ ~ffKilled
    /\ ffState' = "ended"
    /\ UNCHANGED <<route, dlVars, vsDestroyed, ytdlErrors, ffKilled, written, ptBuf,
                   ptEnded, ptDestroyed, bodyVars, lsVars, pgVars>>

\* the transcoder fails (also: it was killed); its 'error' listener
FfmpegError ==
    /\ pc = "streaming" /\ ffState = "running"
    /\ ffState' = "errored"
    /\ EmitErrorUnlessDestroyed
    /\ UNCHANGED <<route, dlVars, vsDestroyed, ytdlErrors, ffKilled, written, ptBuf,
                   ptEnded, ptDestroyed, cancelRequested, cancelRan, lsVars, pgVars>>

\* the source stream emits 'error'; the library may or may not have destroyed
\* the stream by then.  First listener logs, the one added in start() emits
YtdlError(selfDestroyed) ==
    /\ pc = "streaming" /\ ~vsDestroyed /\ ytdlErrors = 0
    /\ ytdlErrors' = 1
    /\ vsDestroyed' = selfDestroyed
    /\ EmitErrorUnlessDestroyed
    /\ UNCHANGED <<route, dlVars, ffState, ffKilled, written, ptBuf, ptEnded,
                   ptDestroyed, cancelRequested, cancelRan, lsVars, pgVars>>

\* the pass-through, flowing, hands its oldest buffered chunk to 'data'
PassThroughData ==
    /\ pc = "streaming" /\ ~ptDestroyed /\ ptBuf # <<>>
    /\ ptBuf' = Tail(ptBuf)
    /\ OnPassThroughData(Head(ptBuf))
    /\ UNCHANGED <<route, dlVars, vsDestroyed, ytdlErrors, ffState, ffKilled, written,
                   ptEnded, ptDestroyed, cancelRequested, cancelRan, lsVars, pgVars>>

\* pipe(..., {end: true}): the transcoder output is over and the buffer is
\* drained, so the pass-through emits 'end'; having ended and finished it
\* destroys itself (autoDestroy) unless the listener threw
PassThroughEnd ==
    /\ pc = "streaming" /\ ~ptDestroyed /\ ~ptEnded
    /\ ffState \in {"ended", "errored"} /\ ptBuf = <<>>
    /\ ptEnded' = TRUE
    /\ OnPassThroughEnd
    /\ ptDestroyed' = ~Terminal(ctrl)
    /\ UNCHANGED <<route, dlVars, vsDestroyed, ytdlErrors, ffState, ffKilled, written,
                   ptBuf, cancelRequested, cancelRan, lsVars, pgVars>>

\* the consumer of the response reads one chunk off the body
ConsumerRead ==
    /\ pc = "streaming" /\ ctrl.state = "readable" /\ ctrl.queue # <<>>
    /\ ctrl' = [ctrl EXCEPT !.queue = Tail(@),
                            !.state = IF Tail(ctrl.queue) = <<>> /\ ctrl.closeRequested
                                      THEN "closed" ELSE @]
    /\ UNCHANGED <<route, dlVars, pipeVars, enqueued, closeCalls, errorCalls, lateCalls,
                   outcomes, uncaught, cancelRequested, cancelRan, lsVars, pgVars>>

\* cancel() of the underlying source
CancelCallback ==
    /\ vsDestroyed' = TRUE
    /\ ptDestroyed' = TRUE
    /\ ffKilled' = TRUE
    /\ cancelRan' = TRUE

\* the consumer cancels the body: a readable body is closed, its queue
\* dropped and cancel() of the underlying source called; on a closed or
\* errored body the call does nothing
ConsumerCancel ==
    /\ pc = "streaming" /\ ~cancelRequested
    /\ cancelRequested' = TRUE
    /\ IF ctrl.state = "readable" THEN
            /\ ctrl' = [ctrl EXCEPT !.state = "closed", !.queue = <<>>]
            /\ outcomes' = outcomes \cup {IF ctrl.closeRequested THEN "closed" ELSE "cancelled"}
            /\ CancelCallback
       ELSE UNCHANGED <<ctrl, outcomes, vsDestroyed, ptDestroyed, ffKilled, cancelRan>>
    /\ UNCHANGED <<route, dlVars, ytdlErrors, ffState, written, ptBuf, ptEnded,
                   enqueued, closeCalls, errorCalls, lateCalls, uncaught, lsVars, pgVars>>

\* ------------------------------------------------ collect-videos handler
KeyMissing_never(key) == FALSE

\* if (!apiKey)
KeyMissing(key) == ~Truthy(key)

\* GET of collect-videos up to the await of youtube.search.list; it serves a
\* direct request or the fetch of the Home page
ListingGET(key) ==
    /\ lpc = "idle"
    /\ route = "none" \/ (route = "page" /\ ppc = "fetching")
    /\ route' = IF route = "none" THEN "listing" ELSE route
    /\ apiKey' = key
    /\ IF KeyMissing(key) THEN
            /\ lresp' = ObjectBody(500, "YouTube API Key is not configured on the server.", Undefined)
            /\ lpc' = "done"
            /\ searchCalls' = searchCalls
       ELSE
            /\ searchCalls' = searchCalls + 1
            /\ lpc' = "calling"
            /\ lresp' = lresp
    /\ UNCHANGED <<searchResult, dlVars, pipeVars, bodyVars, pgVars>>

\* search.list resolves; response.data.items may be missing: items || []
SearchResolves(hasItems, n) ==
    /\ lpc = "calling"
    /\ searchResult' = "ok"
    /\ lresp' = ArrayBody(200, IF hasItems THEN Items(n) ELSE <<>>)
    /\ lpc' = "done"
    /\ UNCHANGED <<route, apiKey, searchCalls, dlVars, pipeVars, bodyVars, pgVars>>

\* search.list rejects: the catch block
SearchRejects(hasApiError, apiMessage, message) ==
    /\ lpc = "calling"
    /\ searchResult' = "failed"
    /\ LET default == "Failed to fetch videos from YouTube."
           errorMessage == IF hasApiError
                           THEN (IF Truthy(apiMessage) THEN apiMessage ELSE default)
                           ELSE IF Truthy(message) THEN message ELSE default
       IN lresp' = ObjectBody(500, "Error fetching videos from YouTube API.", errorMessage)
    /\ lpc' = "done"
    /\ UNCHANGED <<route, apiKey, searchCalls, dlVars, pipeVars, bodyVars, pgVars>>

\* ------------------------------------------------------------- Home page
\* Home starts: fetch(`${appUrl}/api/collect-videos`)
HomeFetch ==
    /\ route = "none"
    /\ route' = "page"
    /\ ppc' = "fetching"
    /\ UNCHANGED <<net, videos, fetchError, views, dlVars, pipeVars, bodyVars, lsVars>>

\* fetch() settles with the response the listing handler produced
FetchResponds ==
    /\ route = "page" /\ ppc = "fetching" /\ lpc = "done"
    /\ net' = [outcome |-> "response", body |-> lresp]
    /\ ppc' = "fetched"
    /\ UNCHANGED <<route, videos, fetchError, views, dlVars, pipeVars, bodyVars, lsVars>>

\* fetch() rejects: the server is not reachable
FetchRejects ==
    /\ route = "page" /\ ppc = "fetching"
    /\ net' = [outcome |-> "networkError", body |-> NoBody(0)]
    /\ ppc' = "fetched"
    /\ UNCHANGED <<route, videos, fetchError, views, dlVars, pipeVars, bodyVars, lsVars>>

\* fetch() settles with a response that did not come intact from the
\* handler: an error page of the server or a gateway (non-OK, JSON object or
\* not JSON), or an OK response whose body does not parse
FetchGarbled(body) ==
    /\ route = "page" /\ ppc = "fetching"
    /\ net' = [outcome |-> "response", body |-> body]
    /\ ppc' = "fetched"
    /\ UNCHANGED <<route, videos, fetchError, views, dlVars, pipeVars, bodyVars, lsVars>>

GarbledBodies ==
    {ObjectBody(st, m, e) : st \in {404, 502}, m \in {Undefined, "", "gateway message"},
                            e \in {Undefined, "", "gateway error"}}
    \cup {NonJsonBody(st) : st \in {200, 502}}

\* response.ok
Ok(body) == body.status >= 200 /\ body.status <= 299

HomeCatch_noError(message) ==
    /\ fetchError' = Null
    /\ videos' = <<>>

\* catch (error): fetchError = error.message; videos = []
HomeCatch(message) ==
    /\ fetchError' = message
    /\ videos' = <<>>

\* the three conditional sections of the markup
Render(v, fe) ==
    (IF ~Truthy(fe) /\ Len(v) > 0 THEN {"grid"} ELSE {})
    \cup (IF ~Truthy(fe) /\ Len(v) = 0 THEN {"empty"} ELSE {})
    \cup (IF Truthy(fe) THEN {"error"} ELSE {})

\* Home after the await of fetch: the try body, the catch and the markup
HomeRender ==
    /\ route = "page" /\ ppc = "fetched"
    /\ IF net.outcome = "networkError" THEN HomeCatch("fetch failed")
       ELSE IF ~Ok(net.body) THEN
            LET default == "API request failed with status"
                errorMessage == IF net.body.kind = "object"
                                THEN Or3(net.body.message, net.body.error, default)
                                ELSE default
            IN HomeCatch(errorMessage)
       ELSE IF net.body.kind = "array" THEN
            /\ videos' = net.body.items
            /\ fetchError' = fetchError
       ELSE HomeCatch("Unexpected token")
    /\ views' = Render(videos', fetchError')
    /\ ppc' = "rendered"
    /\ UNCHANGED <<route, net, dlVars, pipeVars, bodyVars, lsVars>>

Next ==
    \/ \E vid \in VideoIds : DownloadGET(vid)
    \/ GetInfoRejects
    \/ SetupThrows
    \/ GetInfoResolves
    \/ FfmpegWrite
    \/ FfmpegEnd
    \/ FfmpegError
    \/ \E d \in BOOLEAN : YtdlError(d)
    \/ PassThroughData
    \/ PassThroughEnd
    \/ ConsumerRead
    \/ ConsumerCancel
    \/ \E key \in {Undefined, "", "key"} : ListingGET(key)
    \/ \E h \in BOOLEAN, n \in 0..MaxVideos : SearchResolves(h, n)
    \/ \E h \in BOOLEAN, am \in {Undefined, "", "quota exceeded"}, m \in {"", "socket hang up"} :
            SearchRejects(h, am, m)
    \/ HomeFetch
    \/ FetchResponds
    \/ FetchRejects
    \/ \E b \in GarbledBodies : FetchGarbled(b)
    \/ HomeRender

Spec == Init /\ [][Next]_vars

\* the event loop runs every pending callback: buffered chunks are handed to
\* 'data', a finished pass-through emits 'end', the consumer keeps reading
FairSpec ==
    /\ Spec
    /\ WF_vars(PassThroughData)
    /\ WF_vars(PassThroughEnd)
    /\ WF_vars(ConsumerRead)

\* =================================================================== claims

\* C1: after the consumer cancelled the response body, at whatever time after
\* the streaming response was returned, the source stream is destroyed, the
\* pass-through is destroyed and the transcoder is killed.
C1_CancelTearsDownAll ==
    cancelRequested => (vsDestroyed /\ ptDestroyed /\ ffKilled)

\* a run with no error and no cancellation
NoFault == ytdlErrors = 0 /\ ffState # "errored" /\ ~cancelRequested

\* C2: in a run with no error and no cancellation every chunk the transcoder
\* wrote is relayed to the body exactly once and in order (what is not yet
\* relayed is still buffered, in order), the body is closed at most once, and
\* when it is closed the transcoder has ended and every chunk was relayed.
C2_ChunksRelayedInOrderThenClosed ==
    (pc = "streaming" /\ NoFault) =>
        /\ enqueued \o ptBuf = Items(written)
        /\ closeCalls <= 1
        /\ lateCalls = 0 /\ ~uncaught
        /\ closeCalls = 1 =>
                (ffState = "ended" /\ enqueued = Items(written) /\ outcomes = {"closed"})
        /\ closeCalls = 0 => outcomes = {}

C2_Witness ==
    /\ pc = "streaming" /\ NoFault
    /\ closeCalls = 1 /\ Len(enqueued) >= 2 /\ ctrl.state = "closed"

\* the message contains the phrase in any letter case
Contains(m, p) == \E i \in 1..Len(m) : m[i].w = p

\* C3: a failure caught before the streaming response is returned is answered
\* with the status of the first class, in the order 404, 503, 422, 403, whose
\* phrase the message contains in any letter case, else 500; an error without
\* a string message gives 500; the body is JSON with an error text and the
\* requested videoId.
C3_StatusByFirstMatchingClass ==
    (pc = "done" /\ getInfoCalls = 1) =>
        LET m == thrown.message
            str == thrown.kind = "string"
            c404 == str /\ (Contains(m, "unavailable") \/ Contains(m, "private") \/ Contains(m, "video not found"))
            c503 == str /\ (Contains(m, "extract function") \/ Contains(m, "cipher") \/ Contains(m, "signature"))
            c422 == str /\ (Contains(m, "no formats found matching quality") \/ Contains(m, "no such format found"))
            c403 == str /\ (Contains(m, "sign in to confirm") \/ Contains(m, "confirm you're not a bot"))
        IN  /\ c404 => resp.status = 404
            /\ (~c404 /\ c503) => resp.status = 503
            /\ (~c404 /\ ~c503 /\ c422) => resp.status = 422
            /\ (~c404 /\ ~c503 /\ ~c422 /\ c403) => resp.status = 403
            /\ (~c404 /\ ~c503 /\ ~c422 /\ ~c403) => resp.status = 500
            /\ ~str => resp.status = 500
            /\ resp.kind = "json" /\ resp.error # NoText /\ resp.videoId = req

C3_Witness ==
    /\ pc = "done" /\ getInfoCalls = 1 /\ thrown.kind = "string"
    /\ Len(thrown.message) = 2
    /\ thrown.message[1] = [w |-> "no such format found", up |-> FALSE]
    /\ thrown.message[2] = [w |-> "cipher", up |-> TRUE]
    /\ resp.status = 503

\* the videoId parameter is missing, empty or not a valid identifier
IdRejected(vid) == vid.kind = "null" \/ vid.len = 0 \/ ~validateID(vid)

\* C4: a download request whose videoId is missing, empty or invalid is
\* answered 400 with a JSON error body, and getInfo is never called, the
\* source stream never opened and the transcoder never started.
C4_BadIdIs400AndNothingStarts ==
    (route = "download" /\ IdRejected(req)) =>
        /\ pc = "done"
        /\ resp.status = 400 /\ resp.kind = "json" /\ resp.error # NoText
        /\ getInfoCalls = 0 /\ ~ytdlOpened /\ ffState = "none"

C4_Witness ==
    /\ route = "download" /\ req.kind = "str" /\ req.len = 11 /\ ~req.charsOk
    /\ resp.status = 400 /\ getInfoCalls = 0

\* C5: without a configured API key the listing handler answers 500 with the
\* fixed message and never calls the search API; with a key it calls the
\* search API exactly once, and a failed call is answered 500.
C5_KeyGuardAndSingleSearch ==
    lpc # "idle" =>
        /\ apiKey \in {Undefined, ""} =>
                /\ searchCalls = 0 /\ lpc = "done" /\ lresp.status = 500
                /\ lresp.message = "YouTube API Key is not configured on the server."
        /\ apiKey \notin {Undefined, ""} => searchCalls = 1
        /\ searchResult = "failed" => (lpc = "done" /\ lresp.status = 500 /\ searchCalls = 1)

C5_Witness ==
    /\ lpc = "done" /\ apiKey = "key" /\ searchResult = "failed"
    /\ searchCalls = 1 /\ lresp.status = 500

\* the fetch of the page failed: network error, non-OK status or a body that
\* does not parse
FetchFailed ==
    \/ net.outcome = "networkError"
    \/ net.body.status < 200 \/ net.body.status > 299
    \/ net.body.kind = "nonjson"

\* C6: the page renders exactly one view: the error text iff the fetch
\* failed, 'No videos found.' iff it succeeded with an empty list, the grid
\* iff it succeeded with a non-empty list; after a failed fetch the video
\* list is empty.
C6_ExactlyOneView ==
    ppc = "rendered" =>
        /\ Cardinality(views) = 1
        /\ ("error" \in views) <=> FetchFailed
        /\ ("empty" \in views) <=> (~FetchFailed /\ Len(net.body.items) = 0)
        /\ ("grid" \in views) <=> (~FetchFailed /\ Len(net.body.items) > 0)
        /\ FetchFailed => videos = <<>>

C6_Witness ==
    /\ ppc = "rendered" /\ views = {"error"}
    /\ net.outcome = "response" /\ net.body.status = 502
    /\ net.body.message = "" /\ net.body.error = "gateway error"
    /\ fetchError = "gateway error"

\* a step in which the source stream or the transcoder raises an error
ErrorEvent == ytdlErrors' # ytdlErrors \/ (ffState = "running" /\ ffState' = "errored")

\* C7: once the streaming response is returned the response never changes
\* (no JSON error response, no other status), and every source-stream or
\* transcoder error raised while the pass-through is not destroyed calls
\* controller.error and leaves the body errored; a JSON response exists only
\* when nothing was ever streamed.
C7_StreamErrorsErrorTheBody ==
    [][ /\ pc = "streaming" => (pc' = "streaming" /\ resp' = resp /\ resp.kind = "stream")
        /\ (ErrorEvent /\ ~ptDestroyed) =>
                (errorCalls' = errorCalls + 1 /\ ctrl'.state = "errored")
        /\ resp'.kind = "json" => ffState' = "none" ]_vars

C7_Witness ==
    /\ pc = "streaming" /\ ytdlErrors = 1 /\ ffState = "errored"
    /\ errorCalls = 2 /\ ctrl.state = "errored" /\ resp = StreamResp

\* C8: the body reaches at most one terminal outcome and after it the
\* handler makes no further enqueue, close or error call on the controller.
C8_OneOutcomeNoLateCalls ==
    Cardinality(outcomes) <= 1 /\ lateCalls = 0

\* the transcoder process is gone: killed by the handler or exited by itself
TranscoderGone == ffKilled \/ ffState \in {"ended", "errored"}

\* C9: when the body is errored by a source-stream or transcoder error, the
\* source stream and the pass-through are eventually destroyed and the
\* transcoder process is eventually gone.
C9_FailureTearsDownPipeline ==
    (ctrl.state = "errored") ~> (vsDestroyed /\ ptDestroyed /\ TranscoderGone)
====
